---- MODULE Spec2Model ----
(***************************************************************************)
(* One invocation of src/iterm2_bridge.py: main() dispatches on sys.argv,  *)
(* opens a connection to the host application, walks window -> tab ->      *)
(* session, performs one operation and prints one JSON object.             *)
(*                                                                         *)
(* Text (Python str) is a sequence of code points, so that str.lower(),    *)
(* chr(), f-string concatenation and "\n".join() are computed, not assumed.*)
(* A JSON object (Python dict handed to json.dumps) is the sequence of its *)
(* key/value pairs in insertion order.  Every call into the iterm2 library *)
(* either returns or raises an Exception with some message.                *)
(***************************************************************************)
EXTENDS Integers, Sequences, FiniteSets, TLC

\* ------------------------------------------------------------------------
\* String literals of the source, as code points
\* ------------------------------------------------------------------------

\* sys.argv[0]
Str_prog ==
    <<105, 116, 101, 114, 109, 50, 95, 98, 114, 105, 100, 103, 101, 46, 112, 121>>
\* "write_text"
Str_write_text ==
    <<119, 114, 105, 116, 101, 95, 116, 101, 120, 116>>
\* "get_content"
Str_get_content ==
    <<103, 101, 116, 95, 99, 111, 110, 116, 101, 110, 116>>
\* "send_control"
Str_send_control ==
    <<115, 101, 110, 100, 95, 99, 111, 110, 116, 114, 111, 108>>
\* "get_tty"
Str_get_tty ==
    <<103, 101, 116, 95, 116, 116, 121>>
\* "is_processing"
Str_is_processing ==
    <<105, 115, 95, 112, 114, 111, 99, 101, 115, 115, 105, 110, 103>>
\* "No command specified"
Str_NoCommand ==
    <<78, 111, 32, 99, 111, 109, 109, 97, 110, 100, 32, 115, 112, 101, 99, 105, 102, 105, 101, 100>>
\* "No text provided"
Str_NoText ==
    <<78, 111, 32, 116, 101, 120, 116, 32, 112, 114, 111, 118, 105, 100, 101, 100>>
\* "No control character provided"
Str_NoControl ==
    <<78, 111, 32, 99, 111, 110, 116, 114, 111, 108, 32, 99, 104, 97, 114, 97, 99, 116, 101, 114, 32, 112, 114, 111, 118, 105, 100, 101, 100>>
\* "No active session found"
Str_NoSession ==
    <<78, 111, 32, 97, 99, 116, 105, 118, 101, 32, 115, 101, 115, 115, 105, 111, 110, 32, 102, 111, 117, 110, 100>>
\* "Unknown control character: "
Str_UnknownControl ==
    <<85, 110, 107, 110, 111, 119, 110, 32, 99, 111, 110, 116, 114, 111, 108, 32, 99, 104, 97, 114, 97, 99, 116, 101, 114, 58, 32>>
\* "Unknown command: "
Str_UnknownCommand ==
    <<85, 110, 107, 110, 111, 119, 110, 32, 99, 111, 109, 109, 97, 110, 100, 58, 32>>
\* "/dev/ttys000"
Str_tty ==
    <<47, 100, 101, 118, 47, 116, 116, 121, 115, 48, 48, 48>>
\* "\n"
Str_newline ==
    <<10>>

\* ------------------------------------------------------------------------
\* Pure functions
\* ------------------------------------------------------------------------

\* str.lower() replaced by a case-sensitive lookup
Lower_Identity(s) ==
    s

\* str.lower() on ASCII text: 'A'..'Z' (65..90) map to 'a'..'z'
Lower(s) ==
    [i \in 1..Len(s) |-> IF s[i] \in 65..90 THEN s[i] + 32 ELSE s[i]]

\* chr(n): the one-character string whose code is n
chr(n) ==
    <<n>>

\* control_map of send_control_async: key -> control code
control_map ==
    (<<99>> :> 3)                                  \* 'c'      Ctrl+C
    @@ (<<122>> :> 26)                             \* 'z'      Ctrl+Z
    @@ (<<100>> :> 4)                              \* 'd'      Ctrl+D
    @@ (<<108>> :> 12)                             \* 'l'      Ctrl+L
    @@ (<<93>> :> 29)                              \* ']'      Telnet escape
    @@ (<<101, 115, 99, 97, 112, 101>> :> 27)      \* 'escape' ESC
    @@ (<<101, 115, 99>> :> 27)                    \* 'esc'    ESC

RECURSIVE Join_Trailing(_)
\* a join that terminates every line instead of separating them
Join_Trailing(lines) ==
    IF Len(lines) = 0 THEN <<>>
    ELSE lines[1] \o <<10>> \o Join_Trailing(Tail(lines))

RECURSIVE Join(_)
\* "\n".join(lines)
Join(lines) ==
    IF Len(lines) = 0 THEN <<>>
    ELSE IF Len(lines) = 1 THEN lines[1]
    ELSE lines[1] \o Str_newline \o Join(Tail(lines))

\* JSON values and the result dicts built by main
JBool(b) ==
    [t |-> "bool", b |-> b, s |-> <<>>]

JStr(s) ==
    [t |-> "str", b |-> FALSE, s |-> s]

\* {"success": True}
Success ==
    <<[k |-> "success", v |-> JBool(TRUE)]>>

\* {"success": False, "error": msg}
Failure(msg) ==
    <<[k |-> "success", v |-> JBool(FALSE)], [k |-> "error", v |-> JStr(msg)]>>

\* {"success": True, "content": text}
ContentResult(text) ==
    <<[k |-> "success", v |-> JBool(TRUE)], [k |-> "content", v |-> JStr(text)]>>

\* {"success": True, "tty": "/dev/ttys000"}
TtyResult ==
    <<[k |-> "success", v |-> JBool(TRUE)], [k |-> "tty", v |-> JStr(Str_tty)]>>

\* {"success": True, "processing": False}
ProcessingResult ==
    <<[k |-> "success", v |-> JBool(TRUE)], [k |-> "processing", v |-> JBool(FALSE)]>>

\* ------------------------------------------------------------------------
\* Inputs and host outcomes
\* ------------------------------------------------------------------------

\* most rows a screen buffer has in the model
MaxRows == 2

\* rows a screen line can hold: "", "foo", "bar"
RowStrings ==
    {<<>>, <<102, 111, 111>>, <<98, 97, 114>>}

\* what session.async_get_screen_contents() can return: a falsy value, or a
\* screen of 0..MaxRows lines
ScreenContents ==
    {[falsy |-> TRUE, lines |-> <<>>]}
    \cup {[falsy |-> FALSE, lines |-> l] :
            l \in UNION {[1..n -> RowStrings] : n \in 0..MaxRows}}

\* messages an exception raised by the iterm2 library can carry:
\* "boom", "" and "No active session found"
ExcMessages ==
    {<<98, 111, 111, 109>>, <<>>, Str_NoSession}

\* first argument: the five commands, and "bogus", "Get_tty", ""
CommandNames ==
    {Str_write_text, Str_get_content, Str_send_control, Str_get_tty,
     Str_is_processing, <<98, 111, 103, 117, 115>>,
     <<71, 101, 116, 95, 116, 116, 121>>, <<>>}

\* second argument: c C z Z d l ] escape Escape esc ESC Esc zz x "" hi
ArgStrings ==
    {<<99>>, <<67>>, <<122>>, <<90>>, <<100>>, <<108>>, <<93>>,
     <<101, 115, 99, 97, 112, 101>>, <<69, 115, 99, 97, 112, 101>>,
     <<101, 115, 99>>, <<69, 83, 67>>, <<69, 115, 99>>,
     <<122, 122>>, <<120>>, <<>>, <<104, 105>>}

\* sys.argv; argv[1] is Python's sys.argv[0]
ArgVectors ==
    {<<Str_prog>>}
    \cup {<<Str_prog, c>> : c \in CommandNames}
    \cup {<<Str_prog, c, a>> : c \in CommandNames, a \in ArgStrings}

\* ------------------------------------------------------------------------
\* State
\* ------------------------------------------------------------------------
VARIABLES
    argv,          \* sys.argv, fixed for the invocation
    pc,            \* position of main
    connectCalls,  \* number of calls of iterm2.Connection.async_create()
    connection,    \* "none" | "open": the connection held by the closure
    app,           \* "unset" | "some"
    window,        \* "unset" | "none" | "some": app.current_terminal_window
    tab,           \* "unset" | "none" | "some": window.current_tab
    session,       \* "unset" | "none" | "some": tab.current_session
    contents,      \* <<>> or <<c>>: value returned by async_get_screen_contents
    sent,          \* payloads passed to session.async_send_text, in order
    result,        \* <<>> or <<dict>>: value returned by the closure
    exc,           \* <<>> or <<msg>>: exception raised inside the try block
    stdout         \* JSON objects printed, in order

vars == <<argv, pc, connectCalls, connection, app, window, tab, session,
          contents, sent, result, exc, stdout>>

hostVars == <<connectCalls, connection, app, window, tab, session, contents, sent>>

\* sys.argv[1]
command == argv[2]

ValidCommands ==
    {Str_write_text, Str_get_content, Str_send_control, Str_get_tty,
     Str_is_processing}

\* commands whose branch checks len(sys.argv) < 3
NeedsArgument ==
    {Str_write_text, Str_send_control}

Init ==
    /\ argv \in ArgVectors
    /\ pc = "main"
    /\ connectCalls = 0
    /\ connection = "none"
    /\ app = "unset"
    /\ window = "unset"
    /\ tab = "unset"
    /\ session = "unset"
    /\ contents = <<>>
    /\ sent = <<>>
    /\ result = <<>>
    /\ exc = <<>>
    /\ stdout = <<>>

\* ------------------------------------------------------------------------
\* Actions
\* ------------------------------------------------------------------------

\* print(json.dumps(obj)); return
PrintAndReturn(obj) ==
    /\ stdout' = Append(stdout, obj)
    /\ pc' = "done"

\* an Exception with message msg is raised inside the try block of main
Raise(msg) ==
    /\ exc' = <<msg>>
    /\ pc' = "except"

\* if len(sys.argv) < 2: print "No command specified"; return
NoCommand ==
    /\ pc = "main"
    /\ Len(argv) < 2
    /\ PrintAndReturn(Failure(Str_NoCommand))
    /\ UNCHANGED <<argv, hostVars, result, exc>>

\* the two messages of the missing-argument checks exchanged
MissingArgument_Swapped ==
    /\ pc = "main"
    /\ Len(argv) = 2
    /\ argv[2] \in {Str_write_text, Str_send_control}
    /\ PrintAndReturn(Failure(IF argv[2] = Str_write_text
                               THEN Str_NoControl ELSE Str_NoText))
    /\ UNCHANGED <<argv, hostVars, result, exc>>

\* write_text / send_control branch with len(sys.argv) < 3
MissingArgument ==
    /\ pc = "main"
    /\ Len(argv) >= 2
    /\ command \in NeedsArgument
    /\ Len(argv) < 3
    /\ PrintAndReturn(Failure(IF command = Str_write_text
                               THEN Str_NoText ELSE Str_NoControl))
    /\ UNCHANGED <<argv, hostVars, result, exc>>

\* the connection opened before the dispatch on the command name
UnknownCommand_Connects ==
    /\ pc = "main"
    /\ Len(argv) >= 2
    /\ argv[2] \notin {Str_write_text, Str_get_content, Str_send_control,
                       Str_get_tty, Str_is_processing}
    /\ connectCalls' = connectCalls + 1
    /\ connection' = "open"
    /\ PrintAndReturn(Failure(Str_UnknownCommand \o argv[2]))
    /\ UNCHANGED <<argv, app, window, tab, session, contents, sent, result, exc>>

\* else branch: print "Unknown command: <command>"
UnknownCommand ==
    /\ pc = "main"
    /\ Len(argv) >= 2
    /\ command \notin ValidCommands
    /\ PrintAndReturn(Failure(Str_UnknownCommand \o command))
    /\ UNCHANGED <<argv, hostVars, result, exc>>

\* a valid command with its argument: main awaits the command's closure
EnterClosure ==
    /\ pc = "main"
    /\ Len(argv) >= 2
    /\ command \in ValidCommands
    /\ command \in NeedsArgument => Len(argv) >= 3
    /\ pc' = "create"
    /\ UNCHANGED <<argv, hostVars, result, exc, stdout>>

\* the connection created outside the try block: its exception leaves main
AsyncCreate_OutsideTry ==
    /\ pc = "create"
    /\ connectCalls' = connectCalls + 1
    /\ \/ /\ connection' = "open"
          /\ pc' = "get_app"
          /\ UNCHANGED exc
       \/ /\ \E msg \in ExcMessages : exc' = <<msg>>
          /\ pc' = "crashed"
          /\ UNCHANGED connection
    /\ UNCHANGED <<argv, app, window, tab, session, contents, sent, result, stdout>>

\* connection = await iterm2.Connection.async_create()
AsyncCreate ==
    /\ pc = "create"
    /\ connectCalls' = connectCalls + 1
    /\ \/ /\ connection' = "open"
          /\ pc' = "get_app"
          /\ UNCHANGED exc
       \/ /\ \E msg \in ExcMessages : Raise(msg)
          /\ UNCHANGED connection
    /\ UNCHANGED <<argv, app, window, tab, session, contents, sent, result, stdout>>

\* app = await iterm2.async_get_app(connection)
AsyncGetApp ==
    /\ pc = "get_app"
    /\ \/ /\ app' = "some"
          /\ pc' = "window"
          /\ UNCHANGED exc
       \/ /\ \E msg \in ExcMessages : Raise(msg)
          /\ UNCHANGED app
    /\ UNCHANGED <<argv, connectCalls, connection, window, tab, session,
                   contents, sent, result, stdout>>

\* the closure falls through to: return {"success": False, "error": "No active session found"}
ReturnNoSession ==
    /\ result' = <<Failure(Str_NoSession)>>
    /\ pc' = "print"

\* window = app.current_terminal_window; if window:
ReadWindow ==
    /\ pc = "window"
    /\ \/ /\ window' = "some"
          /\ pc' = "tab"
          /\ UNCHANGED <<result, exc>>
       \/ /\ window' = "none"
          /\ ReturnNoSession
          /\ UNCHANGED exc
       \/ /\ \E msg \in ExcMessages : Raise(msg)
          /\ UNCHANGED <<window, result>>
    /\ UNCHANGED <<argv, connectCalls, connection, app, tab, session,
                   contents, sent, stdout>>

\* the tab read without the "if tab:" test
ReadTab_Unchecked ==
    /\ pc = "tab"
    /\ \/ /\ tab' \in {"some", "none"}
          /\ pc' = "session"
          /\ UNCHANGED <<result, exc>>
       \/ /\ \E msg \in ExcMessages : Raise(msg)
          /\ UNCHANGED <<tab, result>>
    /\ UNCHANGED <<argv, connectCalls, connection, app, window, session,
                   contents, sent, stdout>>

\* tab = window.current_tab; if tab:
ReadTab ==
    /\ pc = "tab"
    /\ \/ /\ tab' = "some"
          /\ pc' = "session"
          /\ UNCHANGED <<result, exc>>
       \/ /\ tab' = "none"
          /\ ReturnNoSession
          /\ UNCHANGED exc
       \/ /\ \E msg \in ExcMessages : Raise(msg)
          /\ UNCHANGED <<tab, result>>
    /\ UNCHANGED <<argv, connectCalls, connection, app, window, session,
                   contents, sent, stdout>>

\* session = tab.current_session; if session:
ReadSession ==
    /\ pc = "session"
    /\ \/ /\ session' = "some"
          /\ pc' = "op"
          /\ UNCHANGED <<result, exc>>
       \/ /\ session' = "none"
          /\ ReturnNoSession
          /\ UNCHANGED exc
       \/ /\ \E msg \in ExcMessages : Raise(msg)
          /\ UNCHANGED <<session, result>>
    /\ UNCHANGED <<argv, connectCalls, connection, app, window, tab,
                   contents, sent, stdout>>

\* await session.async_send_text(payload); return {"success": True}
SendText(payload) ==
    /\ sent' = Append(sent, payload)
    /\ \/ /\ result' = <<Success>>
          /\ pc' = "print"
          /\ UNCHANGED exc
       \/ /\ \E msg \in ExcMessages : Raise(msg)
          /\ UNCHANGED result

\* the text sent with a newline appended
WriteText_Newline ==
    /\ pc = "op"
    /\ argv[2] = Str_write_text
    /\ SendText(argv[3] \o <<10>>)
    /\ UNCHANGED <<argv, connectCalls, connection, app, window, tab, session,
                   contents, stdout>>

\* write_text_async: text = sys.argv[2]; await session.async_send_text(text)
WriteText ==
    /\ pc = "op"
    /\ command = Str_write_text
    /\ SendText(argv[3])
    /\ UNCHANGED <<argv, connectCalls, connection, app, window, tab, session,
                   contents, stdout>>

\* get_content_async: read the screen, join contents.line(i).string with "\n"
GetContent ==
    /\ pc = "op"
    /\ command = Str_get_content
    /\ \/ /\ \E c \in ScreenContents :
                /\ contents' = <<c>>
                /\ result' = <<IF c.falsy THEN ContentResult(<<>>)
                               ELSE ContentResult(Join(c.lines))>>
          /\ pc' = "print"
          /\ UNCHANGED exc
       \/ /\ \E msg \in ExcMessages : Raise(msg)
          /\ UNCHANGED <<contents, result>>
    /\ UNCHANGED <<argv, connectCalls, connection, app, window, tab, session,
                   sent, stdout>>

\* send_control_async: look sys.argv[2].lower() up in control_map
SendControl ==
    /\ pc = "op"
    /\ command = Str_send_control
    /\ LET char == argv[3]
           char_lower == Lower(char)
       IN  IF char_lower \in DOMAIN control_map
           THEN SendText(chr(control_map[char_lower]))
           ELSE /\ result' = <<Failure(Str_UnknownControl \o char)>>
                /\ pc' = "print"
                /\ UNCHANGED <<sent, exc>>
    /\ UNCHANGED <<argv, connectCalls, connection, app, window, tab, session,
                   contents, stdout>>

\* the tty key left out of the result
GetTty_NoKey ==
    /\ pc = "op"
    /\ argv[2] = Str_get_tty
    /\ result' = <<Success>>
    /\ pc' = "print"
    /\ UNCHANGED <<argv, hostVars, exc, stdout>>

\* get_tty_async: return the placeholder TTY path
GetTty ==
    /\ pc = "op"
    /\ command = Str_get_tty
    /\ result' = <<TtyResult>>
    /\ pc' = "print"
    /\ UNCHANGED <<argv, hostVars, exc, stdout>>

\* is_processing_async: return processing False
IsProcessing ==
    /\ pc = "op"
    /\ command = Str_is_processing
    /\ result' = <<ProcessingResult>>
    /\ pc' = "print"
    /\ UNCHANGED <<argv, hostVars, exc, stdout>>

\* result = await <closure>(); print(json.dumps(result))
PrintResult ==
    /\ pc = "print"
    /\ PrintAndReturn(result[1])
    /\ UNCHANGED <<argv, hostVars, result, exc>>

\* an except clause that swallows the exception without printing
Except_Silent ==
    /\ pc = "except"
    /\ pc' = "done"
    /\ UNCHANGED <<argv, hostVars, result, exc, stdout>>

\* except Exception as e: print(json.dumps({"success": False, "error": str(e)}))
Except ==
    /\ pc = "except"
    /\ PrintAndReturn(Failure(exc[1]))
    /\ UNCHANGED <<argv, hostVars, result, exc>>

Next ==
    \/ NoCommand
    \/ MissingArgument
    \/ UnknownCommand
    \/ EnterClosure
    \/ AsyncCreate
    \/ AsyncGetApp
    \/ ReadWindow
    \/ ReadTab
    \/ ReadSession
    \/ WriteText
    \/ GetContent
    \/ SendControl
    \/ GetTty
    \/ IsProcessing
    \/ PrintResult
    \/ Except

Spec == Init /\ [][Next]_vars

\* asyncio.run(main()) runs main to its end once every host call has answered
FairSpec == Spec /\ WF_vars(Next)

\* ------------------------------------------------------------------------
\* Properties
\* ------------------------------------------------------------------------

HasCommand == Len(argv) >= 2

HasArgument == Len(argv) >= 3

\* the keys of a JSON object, in order
Keys(obj) ==
    [i \in 1..Len(obj) |-> obj[i].k]

\* lower-casing as the property states it: per character, A-Z to a-z
Lowercase(s) ==
    [i \in 1..Len(s) |->
        IF s[i] >= 65 /\ s[i] <= 90 THEN s[i] - 65 + 97 ELSE s[i]]

\* names of the control codes: 'c' 'z' 'd' 'l' ']' 'escape' 'esc'
Key_c == <<99>>
Key_z == <<122>>
Key_d == <<100>>
Key_l == <<108>>
Key_rbracket == <<93>>
Key_escape == <<101, 115, 99, 97, 112, 101>>
Key_esc == <<101, 115, 99>>

\* the lookup table of the specification: c z d l ] escape esc
ControlTable ==
    {<<Key_c, 3>>, <<Key_z, 26>>, <<Key_d, 4>>, <<Key_l, 12>>,
     <<Key_rbracket, 29>>, <<Key_escape, 27>>, <<Key_esc, 27>>}

ControlNames == {e[1] : e \in ControlTable}

ControlCode(name) == (CHOOSE e \in ControlTable : e[1] = name)[2]

\* number of newline characters of a text
CountNewlines(s) ==
    Cardinality({i \in 1..Len(s) : s[i] = 10})

RECURSIVE JoinedRows(_, _)
\* rows r_1..r_n with one newline between consecutive rows
JoinedRows(rows, n) ==
    IF n = 0 THEN <<>>
    ELSE IF n = 1 THEN rows[1]
    ELSE JoinedRows(rows, n - 1) \o <<10>> \o rows[n]

\* the invocation is one that fails validation before the closure is entered
MissingOrUnknown ==
    \/ ~HasCommand
    \/ command \notin ValidCommands
    \/ command \in NeedsArgument /\ ~HasArgument

\* send_control with a name that is not in the table
UnknownControlName ==
    /\ HasArgument
    /\ command = Str_send_control
    /\ Lowercase(argv[3]) \notin ControlNames

\* C1: whatever the arguments and whatever the host API does, standard
\* output never holds more than one JSON object, holds exactly one when main
\* has returned, and main does return.
C1_ExactlyOneLine ==
    /\ [](Len(stdout) <= 1)
    /\ [](pc = "done" => Len(stdout) = 1)
    /\ [](pc # "done" => stdout = <<>>)
    /\ <>(pc = "done")

\* C1 case: main has returned after the connection could not be created
C1_Witness ==
    /\ pc = "done"
    /\ Len(stdout) = 1
    /\ exc # <<>>
    /\ connectCalls = 1
    /\ connection = "none"

\* C2: no command, write_text without text and send_control without a
\* control character print their own error message, and no connection is
\* created at any point of such an invocation.
C2_MissingArguments ==
    /\ ~HasCommand =>
          /\ connectCalls = 0 /\ connection = "none"
          /\ pc = "done" => stdout = <<Failure(Str_NoCommand)>>
    /\ Len(argv) = 2 /\ argv[2] = Str_write_text =>
          /\ connectCalls = 0 /\ connection = "none"
          /\ pc = "done" => stdout = <<Failure(Str_NoText)>>
    /\ Len(argv) = 2 /\ argv[2] = Str_send_control =>
          /\ connectCalls = 0 /\ connection = "none"
          /\ pc = "done" => stdout = <<Failure(Str_NoControl)>>

\* C2 case: send_control without its argument has printed its result
C2_Witness ==
    /\ pc = "done"
    /\ Len(argv) = 2
    /\ argv[2] = Str_send_control
    /\ stdout = <<Failure(Str_NoControl)>>

\* C3: for each of the five commands with its argument present, when the
\* connection was created and the window, the tab or the session is absent,
\* the output is {success:false, error:"No active session found"}.
C3_NoActiveSession ==
    ( /\ pc = "done"
      /\ HasCommand
      /\ command \in ValidCommands
      /\ command \in NeedsArgument => HasArgument
      /\ connection = "open"
      /\ window = "none" \/ tab = "none" \/ session = "none" )
    => stdout = <<Failure(Str_NoSession)>>

\* C3 case: send_control with an unrecognized name and a window without tab
C3_Witness ==
    /\ pc = "done"
    /\ UnknownControlName
    /\ connection = "open"
    /\ window = "some"
    /\ tab = "none"

\* C4: an exception raised at any step is caught: main never ends by an
\* uncaught exception, and once it has returned the output is
\* {success:false, error:<the exception's message>}.
C4_ExceptionsCaught ==
    /\ pc # "crashed"
    /\ exc # <<>> => pc \in {"except", "done"}
    /\ exc # <<>> /\ pc = "done" => stdout = <<Failure(exc[1])>>

\* C4 case: the send of write_text raised and main has returned
C4_Witness ==
    /\ pc = "done"
    /\ exc # <<>>
    /\ HasCommand
    /\ command = Str_write_text
    /\ session = "some"
    /\ Len(sent) = 1

\* C5: send_control x with a resolved session: a name of the table (compared
\* in lower case) makes exactly one send, of the one-character string with
\* the table's code, and the output is {success:true} (when that send did
\* not raise); any other name sends nothing and the output is
\* "Unknown control character: " followed by x as given.
C5_SendControl ==
    ( /\ pc = "done"
      /\ HasArgument
      /\ command = Str_send_control
      /\ session = "some" )
    => LET x == argv[3] IN
       IF Lowercase(x) \in ControlNames
       THEN /\ sent = << <<ControlCode(Lowercase(x))>> >>
            /\ exc = <<>> => stdout = <<Success>>
       ELSE /\ sent = <<>>
            /\ stdout = <<Failure(Str_UnknownControl \o x)>>

\* C5 case: send_control ESC has sent the character 27 and printed success
C5_Witness ==
    /\ pc = "done"
    /\ HasArgument
    /\ command = Str_send_control
    /\ argv[3] = <<69, 83, 67>>
    /\ sent = << <<27>> >>
    /\ stdout = <<Success>>

\* C6: get_content whose screen read returned rows r_1..r_n prints
\* {success:true, content:C}, C being the rows with one newline between
\* consecutive rows; an empty screen or a read that returns nothing gives
\* content "".
C6_GetContent ==
    ( /\ pc = "done"
      /\ HasCommand
      /\ command = Str_get_content
      /\ contents # <<>> )
    => LET c == contents[1]
           n == Len(c.lines) IN
       /\ Keys(stdout[1]) = <<"success", "content">>
       /\ stdout[1][1].v = JBool(TRUE)
       /\ c.falsy \/ n = 0 => stdout[1][2].v = JStr(<<>>)
       /\ ~c.falsy =>
             /\ stdout[1][2].v = JStr(JoinedRows(c.lines, n))
             /\ n >= 1 => CountNewlines(stdout[1][2].v.s) = n - 1

\* C6 case: the screen rows "foo", "bar" printed as "foo\nbar"
C6_Witness ==
    /\ pc = "done"
    /\ HasCommand
    /\ command = Str_get_content
    /\ contents = <<[falsy |-> FALSE, lines |-> << <<102, 111, 111>>, <<98, 97, 114>> >>]>>
    /\ stdout = <<ContentResult(<<102, 111, 111, 10, 98, 97, 114>>)>>

\* C7: a connection that was acquired is released by the time main has
\* returned.
C7_ConnectionReleased ==
    pc = "done" => connection # "open"

\* C8 as stated: an unknown command, a missing argument and an unrecognized
\* control-code name are all detected with no connection created.
C8_ValidationBeforeConnect ==
    (MissingOrUnknown \/ UnknownControlName) => connectCalls = 0

\* C8 amended: an unknown command or a missing argument is detected with no
\* connection created; an unrecognized control-code name is reported only
\* after the connection was created and the session resolved.
C8_Amended ==
    /\ MissingOrUnknown => connectCalls = 0 /\ connection = "none"
    /\ ( /\ UnknownControlName
         /\ stdout = <<Failure(Str_UnknownControl \o argv[3])>> )
       => connectCalls = 1 /\ connection = "open" /\ session = "some"

\* C8 case: an unknown command name has been reported
C8_Witness ==
    /\ pc = "done"
    /\ HasCommand
    /\ command = <<98, 111, 103, 117, 115>>
    /\ stdout = <<Failure(Str_UnknownCommand \o <<98, 111, 103, 117, 115>>)>>

\* the payload keys each command's successful output has
PayloadKeys ==
    IF command = Str_get_content THEN <<"success", "content">>
    ELSE IF command = Str_get_tty THEN <<"success", "tty">>
    ELSE IF command = Str_is_processing THEN <<"success", "processing">>
    ELSE <<"success">>

\* a valid command with its argument, a resolved session, no host call raised
OperationDone ==
    /\ pc = "done"
    /\ HasCommand
    /\ command \in ValidCommands
    /\ command \in NeedsArgument => HasArgument
    /\ session = "some"
    /\ exc = <<>>

OutputSucceeds ==
    /\ stdout[1][1] = [k |-> "success", v |-> JBool(TRUE)]
    /\ Keys(stdout[1]) = PayloadKeys

\* C9 as stated: each of the five commands with its argument present and a
\* resolved session prints success:true with its payload key.
C9_SuccessPayload ==
    OperationDone => OutputSucceeds

\* C9 amended: each of the five commands with its argument present (for
\* send_control, a name of the control table) and a resolved session on which
\* the operation succeeds prints success:true with its payload key.
C9_Amended ==
    OperationDone /\ ~UnknownControlName => OutputSucceeds

\* C9 case: get_tty has printed success with the tty key
C9_Witness ==
    /\ OperationDone
    /\ command = Str_get_tty
    /\ Keys(stdout[1]) = <<"success", "tty">>

\* C10: at most one send per invocation, made with the connection open and
\* the session resolved and before anything is printed; the read-only
\* commands, unknown commands and every validation or resolution failure
\* send nothing; write_text t prints {success:true} only after exactly one
\* send of t unmodified.
C10_SendFrame ==
    /\ [](Len(sent) <= 1)
    /\ [][sent' # sent =>
            /\ connection = "open" /\ session = "some"
            /\ stdout = <<>> /\ stdout' = <<>>]_vars
    /\ []( \/ MissingOrUnknown
           \/ UnknownControlName
           \/ command \in {Str_get_content, Str_get_tty, Str_is_processing}
           \/ window = "none" \/ tab = "none" \/ session = "none"
           => sent = <<>> )
    /\ []( /\ HasCommand
           /\ command = Str_write_text
           /\ stdout = <<Success>>
           => HasArgument /\ sent = <<argv[3]>> )

\* C10 case: write_text hi has sent "hi" and printed success
C10_Witness ==
    /\ pc = "done"
    /\ HasArgument
    /\ command = Str_write_text
    /\ argv[3] = <<104, 105>>
    /\ sent = << <<104, 105>> >>
    /\ stdout = <<Success>>

====
